---- MODULE Spec2Model ----
(***************************************************************************)
(* Model of src/app.py: the cycle-math functions, the /predict handler and *)
(* the /receive_data handler of the fertility-window backend.              *)
(*                                                                         *)
(* Calendar dates are proleptic Gregorian ordinals (datetime.toordinal()); *)
(* a timedelta of n days is the integer n.  Strings are real strings, so   *)
(* strftime, str() and the f-string messages are computed, not assumed.    *)
(***************************************************************************)
EXTENDS Integers, Sequences, FiniteSets, TLC

VARIABLES pc, request, response, locals, log

vars == <<pc, request, response, locals, log>>

(***************************************************************************)
(* Bounds of the explored inputs.                                          *)
(***************************************************************************)
\* largest cycle length submitted to a direct call of the cycle-math functions
MaxCycleLength == 36
\* largest cycleLength1..3 form field submitted to /predict
MaxFormCycleLength == 30
\* largest periodDuration1..3 form field submitted to /predict
MaxPeriodDuration == 6
\* most rows of an uploaded table
MaxRows == 2

(***************************************************************************)
(* datetime: ordinals, calendar fields and strftime.                       *)
(***************************************************************************)
_is_leap(year) == year % 4 = 0 /\ (year % 100 # 0 \/ year % 400 = 0)

_DAYS_IN_MONTH == <<31, 28, 31, 30, 31, 30, 31, 31, 30, 31, 30, 31>>

_DAYS_BEFORE_MONTH == <<0, 31, 59, 90, 120, 151, 181, 212, 243, 273, 304, 334>>

_days_before_year(year) ==
    LET y == year - 1
    IN  y * 365 + (y \div 4) - (y \div 100) + (y \div 400)

_days_before_month(year, month) ==
    _DAYS_BEFORE_MONTH[month] + (IF month > 2 /\ _is_leap(year) THEN 1 ELSE 0)

_ymd2ord(year, month, day) ==
    _days_before_year(year) + _days_before_month(year, month) + day

\* days in 400, 100 and 4 years
_DI400Y == _days_before_year(401)
_DI100Y == _days_before_year(101)
_DI4Y == _days_before_year(5)

_ord2ymd(ordinal) ==
    LET n0   == ordinal - 1
        n400 == n0 \div _DI400Y
        n1_  == n0 % _DI400Y
        n100 == n1_ \div _DI100Y
        n2_  == n1_ % _DI100Y
        n4   == n2_ \div _DI4Y
        n3_  == n2_ % _DI4Y
        n1   == n3_ \div 365
        n    == n3_ % 365
        year == n400 * 400 + 1 + n100 * 100 + n4 * 4 + n1
    IN  IF n1 = 4 \/ n100 = 4
        THEN [year |-> year - 1, month |-> 12, day |-> 31]
        ELSE LET leapyear == n1 = 3 /\ (n4 # 24 \/ n100 = 3)
                 month0   == (n + 50) \div 32
                 prec0    == _DAYS_BEFORE_MONTH[month0]
                             + (IF month0 > 2 /\ leapyear THEN 1 ELSE 0)
                 month    == IF prec0 > n THEN month0 - 1 ELSE month0
                 prec     == IF prec0 > n
                             THEN prec0 - (_DAYS_IN_MONTH[month]
                                           + (IF month = 2 /\ leapyear THEN 1 ELSE 0))
                             ELSE prec0
             IN  [year |-> year, month |-> month, day |-> n - prec + 1]

\* datetime.weekday(): Monday is 0
weekday(ordinal) == (ordinal + 6) % 7

DayNames == <<"Monday", "Tuesday", "Wednesday", "Thursday", "Friday", "Saturday", "Sunday">>

MonthNames == <<"January", "February", "March", "April", "May", "June", "July",
                "August", "September", "October", "November", "December">>

\* %d: the day of the month as two digits
ZeroPad2(n) == IF n < 10 THEN "0" \o ToString(n) ELSE ToString(n)

\* strftime('%B %d')
strftime_B_d(ordinal) ==
    LET f == _ord2ymd(ordinal)
    IN  MonthNames[f.month] \o " " \o ZeroPad2(f.day)

\* strftime('%A, %B %d, %Y')
strftime_A_B_d_Y(ordinal) ==
    LET f == _ord2ymd(ordinal)
    IN  DayNames[weekday(ordinal) + 1] \o ", " \o MonthNames[f.month] \o " "
        \o ZeroPad2(f.day) \o ", " \o ToString(f.year)

\* datetime.strptime(s, '%Y-%m-%d') of the text y-m-d, as an ordinal
strptime_Y_m_d(ymd) == _ymd2ord(ymd[1], ymd[2], ymd[3])

(***************************************************************************)
(* float: cycle_length * 0.6 in IEEE-754 binary64, then int().             *)
(* 0.6 is the double 5404319552844595 * 2^-53; its mantissa is held in     *)
(* three limbs of 18 bits so that the exact product fits 32-bit integers.  *)
(***************************************************************************)
Limb == 2^18

\* the mantissa of the double 0.6, least significant limb first
Mantissa_0_6 == <<209715, 52428, 78643>>

RECURSIVE BitLength(_)
BitLength(n) == IF n = 0 THEN 0 ELSE 1 + BitLength(n \div 2)

\* int(c * 0.6) for an int c >= 0: the exact product c * mantissa, rounded
\* to 53 significant bits (nearest, ties to even), then truncated
int_times_0_6_nonneg(c) ==
    LET m   == Mantissa_0_6
        t0  == c * m[1]
        p0  == t0 % Limb
        t1  == c * m[2] + (t0 \div Limb)
        p1  == t1 % Limb
        p2  == c * m[3] + (t1 \div Limb)
        \* bits of the product below the 53 kept ones
        s   == IF p2 = 0 THEN 0 ELSE BitLength(p2) + 36 - 53
        rem == p0 % (2^s)
        half == IF s = 0 THEN 0 ELSE 2^(s - 1)
        kept == p0 \div (2^s)
        up  == s > 0 /\ (rem > half \/ (rem = half /\ kept % 2 = 1))
        r0  == p0 - rem + (IF up THEN 2^s ELSE 0)
        r1  == p1 + (IF r0 = Limb THEN 1 ELSE 0)
        r2  == p2 + (IF r1 = Limb THEN 1 ELSE 0)
    IN  r2 \div (2^17)

\* int() truncates toward zero; the product of a negative int is the negated
\* product of its absolute value (rounding to nearest is symmetric)
int_times_0_6(c) ==
    IF c >= 0 THEN int_times_0_6_nonneg(c) ELSE 0 - int_times_0_6_nonneg(0 - c)

\* round(n / d) for ints n, d > 0: the quotient rounded half to even.  The
\* double n / d lies within one part in 2^53 of the exact quotient, which for
\* d = 3 is never near a half.
round_div(n, d) ==
    LET q == n \div d
        r == n % d
    IN  IF 2 * r < d THEN q
        ELSE IF 2 * r > d THEN q + 1
        ELSE IF q % 2 = 0 THEN q ELSE q + 1

(***************************************************************************)
(* Cycle math.                                                             *)
(***************************************************************************)
LutealDays == 14
FertileDaysBefore == 5
FertileDaysAfter == 1
IrregularSpread == 8
WindowDays == 7

\* variant: a cycle shorter than the luteal phase is clamped to the reference date
calculate_ovulation_day_clamped(lmp_date, cycle_length, has_pcos) ==
    LET days_to_ovulation ==
            IF has_pcos THEN int_times_0_6(cycle_length)
            ELSE IF cycle_length < LutealDays THEN 0 ELSE cycle_length - LutealDays
    IN  lmp_date + days_to_ovulation

calculate_ovulation_day(lmp_date, cycle_length, has_pcos) ==
    LET days_to_ovulation ==
            IF has_pcos THEN int_times_0_6(cycle_length)
            ELSE cycle_length - LutealDays
    IN  lmp_date + days_to_ovulation

\* variant: two days of egg viability
calculate_fertile_window_long(ovulation_day) ==
    [start |-> ovulation_day - FertileDaysBefore,
     end   |-> ovulation_day + FertileDaysAfter + 1]

calculate_fertile_window(ovulation_day) ==
    [start |-> ovulation_day - FertileDaysBefore,
     end   |-> ovulation_day + FertileDaysAfter]

Max(S) == CHOOSE x \in S : \A y \in S : y <= x

Min(S) == CHOOSE x \in S : \A y \in S : x <= y

SeqRange(s) == {s[i] : i \in DOMAIN s}

\* variant: the spread is looked at before the flag
analyze_cycle_regularity_spread_first(cycle_lengths, has_pcos) ==
    IF Max(SeqRange(cycle_lengths)) - Min(SeqRange(cycle_lengths)) > IrregularSpread
    THEN "Irregular"
    ELSE IF has_pcos THEN "Irregular - PCOS may cause irregular cycles"
         ELSE "Regular"

\* variant: a spread of exactly IrregularSpread already counts as irregular
analyze_cycle_regularity_inclusive(cycle_lengths, has_pcos) ==
    IF has_pcos THEN "Irregular - PCOS may cause irregular cycles"
    ELSE IF Max(SeqRange(cycle_lengths)) - Min(SeqRange(cycle_lengths)) >= IrregularSpread
         THEN "Irregular"
         ELSE "Regular"

analyze_cycle_regularity(cycle_lengths, has_pcos) ==
    IF has_pcos THEN "Irregular - PCOS may cause irregular cycles"
    ELSE IF Max(SeqRange(cycle_lengths)) - Min(SeqRange(cycle_lengths)) > IrregularSpread
         THEN "Irregular"
         ELSE "Regular"

probabilities ==
    <<[day_offset |-> -5, prob |-> "Low (~4%)"],
      [day_offset |-> -4, prob |-> "Low (~10%)"],
      [day_offset |-> -3, prob |-> "Medium (~15%)"],
      [day_offset |-> -2, prob |-> "High (~27%)"],
      [day_offset |-> -1, prob |-> "High (~30%)"],
      [day_offset |-> 0, prob |-> "Peak (~33%)"],
      [day_offset |-> 1, prob |-> "Very Low"]>>

\* variant: the loop runs over range(1, 8)
calculate_conception_probability_shifted(fertile_window) ==
    [k \in 1..WindowDays |->
        [date        |-> strftime_B_d(fertile_window.start + k),
         probability |-> probabilities[k].prob]]

\* the loop over range(7); entry i + 1 of the sequence is list index i
calculate_conception_probability(fertile_window) ==
    [k \in 1..WindowDays |->
        [date        |-> strftime_B_d(fertile_window.start + (k - 1)),
         probability |-> probabilities[k].prob]]

(***************************************************************************)
(* Python values held in table cells, form fields and JSON results: a      *)
(* type tag, a text payload and an integer payload.                        *)
(***************************************************************************)
PyNone == [t |-> "NoneType", s |-> "", n |-> 0]

PyStr(x) == [t |-> "str", s |-> x, n |-> 0]

PyInt(k) == [t |-> "int", s |-> "", n |-> k]

PyBool(b) == [t |-> "bool", s |-> "", n |-> IF b THEN 1 ELSE 0]

\* the float NaN pandas stores for an empty cell
PyNaN == [t |-> "float", s |-> "nan", n |-> 0]

\* str(value), also the {value} of an f-string
py_str(v) ==
    CASE v.t = "str" -> v.s
      [] v.t = "int" -> ToString(v.n)
      [] v.t = "bool" -> (IF v.n = 1 THEN "True" ELSE "False")
      [] v.t = "float" -> v.s
      [] v.t = "NoneType" -> "None"

\* one element of the comparison df['user_id'] == name
py_eq(cell, name) ==
    \/ cell.t = "str" /\ name.t = "str" /\ cell.s = name.s
    \/ cell.t = "int" /\ name.t = "int" /\ cell.n = name.n

(***************************************************************************)
(* Uploaded files and pandas.  An upload carries its filename, the format  *)
(* of its bytes and the table those bytes hold; a table is a set of column *)
(* names and a sequence of rows, each a function from the columns to cells.*)
(***************************************************************************)
DataFrame(columns, rows) == [columns |-> columns, rows |-> rows]

NoUpload == [present |-> FALSE, filename |-> "", format |-> "none",
             df |-> DataFrame({}, <<>>)]

Upload(filename, format, df) ==
    [present |-> TRUE, filename |-> filename, format |-> format, df |-> df]

\* bbt_file and bbt_file.filename != ''
file_given(bbt_file) == bbt_file.present /\ bbt_file.filename # ""

\* filename.lower().endswith('.csv'), on the filenames uploaded here
lower(filename) ==
    CASE filename = "BBT.CSV" -> "bbt.csv"
      [] filename = "DATA.CSV" -> "data.csv"
      [] OTHER -> filename

endswith_csv(filename) == filename \in {"bbt.csv", "data.csv"}

Raised(text) == [ok |-> FALSE, error |-> text, df |-> DataFrame({}, <<>>)]

Parsed(df) == [ok |-> TRUE, error |-> "", df |-> df]

read_csv(bbt_file) ==
    CASE bbt_file.format = "csv" -> Parsed(bbt_file.df)
      [] bbt_file.format = "empty" -> Raised("No columns to parse from file")
      [] OTHER -> Raised("'utf-8' codec can't decode byte 0x9d in position 10: invalid start byte")

read_excel(bbt_file) ==
    CASE bbt_file.format = "xlsx" -> Parsed(bbt_file.df)
      [] OTHER -> Raised("Excel file format cannot be determined, you must specify an engine manually.")

read_table(bbt_file) ==
    IF endswith_csv(lower(bbt_file.filename)) THEN read_csv(bbt_file)
    ELSE read_excel(bbt_file)

\* df[df['user_id'] == name].rows
matching_rows(df, name) == SelectSeq(df.rows, LAMBDA r : py_eq(r["user_id"], name))

\* user_row.get(col, None)
row_get(df, row, col) == IF col \in df.columns THEN row[col] ELSE PyNone

(***************************************************************************)
(* /predict: the BBT lookup, which only prints.                            *)
(***************************************************************************)
bbt_columns == <<"bbt", "BBT", "temperature", "Temperature">>

RECURSIVE SumCells(_, _, _)
SumCells(rows, col, i) ==
    IF i > Len(rows) THEN 0
    ELSE (IF rows[i][col].t = "int" THEN rows[i][col].n ELSE 0) + SumCells(rows, col, i + 1)

\* user_rows[col].mean() and its print: a column holding text cannot be
\* averaged (TypeError); empty cells are skipped
print_mean(user_rows, col, name) ==
    IF \E i \in DOMAIN user_rows : user_rows[i][col].t = "str"
    THEN [raised |-> TRUE, error |-> "Could not convert string to numeric", printed |-> <<>>]
    ELSE LET counted == {i \in DOMAIN user_rows : user_rows[i][col].t = "int"}
         IN  [raised |-> FALSE, error |-> "",
              printed |-> <<[line |-> "Average BBT for user '" \o py_str(name) \o "': ",
                             total |-> SumCells(user_rows, col, 1),
                             count |-> Cardinality(counted)]>>]

Printed(text) == [raised |-> FALSE, error |-> "",
                  printed |-> <<[line |-> text, total |-> 0, count |-> 0]>>]

\* the body of the try block, lines 76-95
bbt_lookup_body(bbt_file, name) ==
    LET parsed == read_table(bbt_file)
        df == parsed.df
    IN  IF ~parsed.ok
        THEN [raised |-> TRUE, error |-> parsed.error, printed |-> <<>>]
        ELSE IF "user_id" \notin df.columns
        THEN Printed("No 'user_id' column found in the file.")
        ELSE LET user_rows == matching_rows(df, name)
                 found == {k \in DOMAIN bbt_columns : bbt_columns[k] \in df.columns}
             IN  IF user_rows = <<>>
                 THEN Printed("No rows found for user_id '" \o py_str(name) \o "'.")
                 ELSE IF found = {}
                 THEN Printed("No BBT column found in the file.")
                 ELSE print_mean(user_rows, bbt_columns[Min(found)], name)

\* variant: no except clause, the exception of the body leaves the handler
bbt_lookup_uncaught(bbt_file, name) ==
    LET received == [line |-> "Received file: " \o bbt_file.filename, total |-> 0, count |-> 0]
        body == bbt_lookup_body(bbt_file, name)
    IN  [raised |-> body.raised, error |-> body.error,
         printed |-> <<received>> \o body.printed]

\* the try/except of lines 75-97: every exception of the body is caught
bbt_lookup(bbt_file, name) ==
    LET received == [line |-> "Received file: " \o bbt_file.filename, total |-> 0, count |-> 0]
        body == bbt_lookup_body(bbt_file, name)
    IN  IF body.raised
        THEN [raised |-> FALSE, error |-> "",
              printed |-> <<received, [line |-> "Error reading file: " \o body.error,
                                       total |-> 0, count |-> 0]>>]
        ELSE [raised |-> FALSE, error |-> "", printed |-> <<received>> \o body.printed]

(***************************************************************************)
(* /predict                                                                *)
(***************************************************************************)
Sum3(s) == s[1] + s[2] + s[3]

\* variant: the ovulation math is fed the recorded cycle's date
next_lmp_date_recorded(lmp_date, avg_cycle_length) == lmp_date

\* line 104
next_lmp_date(lmp_date, avg_cycle_length) == lmp_date + avg_cycle_length

\* the response Flask sends when the handler raises
InternalServerError == [status |-> 500, json |-> <<>>]

predict(form, bbt_file) ==
    LET name == form.name
        cycle_lengths == form.cycleLength
        period_durations == form.periodDuration
        lmp_date == strptime_Y_m_d(form.lmpDate3)
        has_pcos == form.pcos = "true"
        lookup == IF has_pcos /\ file_given(bbt_file)
                  THEN bbt_lookup(bbt_file, name)
                  ELSE [raised |-> FALSE, error |-> "", printed |-> <<>>]
        avg_cycle_length == round_div(Sum3(cycle_lengths), Len(cycle_lengths))
        avg_period_duration == round_div(Sum3(period_durations), Len(period_durations))
        next_lmp == next_lmp_date(lmp_date, avg_cycle_length)
        ovulation_day == calculate_ovulation_day(next_lmp, avg_cycle_length, has_pcos)
        fertile_window == calculate_fertile_window(ovulation_day)
        cycle_regularity == analyze_cycle_regularity(cycle_lengths, has_pcos)
        conception_probability == calculate_conception_probability(fertile_window)
    IN  IF lookup.raised
        THEN [response |-> InternalServerError, locals |-> <<>>, printed |-> lookup.printed]
        ELSE [response |->
                [status |-> 200,
                 json |-> [fertileWindow |->
                               [start |-> strftime_A_B_d_Y(fertile_window.start),
                                end |-> strftime_A_B_d_Y(fertile_window.end)],
                           ovulationDay |-> strftime_A_B_d_Y(ovulation_day),
                           cycleRegularity |-> cycle_regularity,
                           conceptionProbability |-> conception_probability,
                           insights |-> [averageCycleLength |-> avg_cycle_length,
                                         averagePeriodDuration |-> avg_period_duration]]],
              locals |-> [lmp_date |-> lmp_date, next_lmp_date |-> next_lmp,
                          ovulation_day |-> ovulation_day,
                          fertile_window |-> fertile_window],
              printed |-> lookup.printed]

(***************************************************************************)
(* /receive_data                                                           *)
(***************************************************************************)
columns_to_load ==
    <<"LMP_Cycle_1", "LMP_Cycle_2", "LMP_Cycle_3",
      "Cycle_Length_1", "Cycle_Length_2", "Cycle_Length_3",
      "Period_Duration_1", "Period_Duration_2", "Period_Duration_3",
      "is_pcos">>

\* lines 156-159
load_value(value) == IF value.t # "NoneType" THEN PyStr(py_str(value)) ELSE PyNone

\* variant: only the columns the table has are put in the result
load_columns_present(df, user_row) ==
    [col \in SeqRange(columns_to_load) \cap df.columns |-> load_value(row_get(df, user_row, col))]

\* the loop of lines 154-159 over columns_to_load
load_columns(df, user_row) ==
    [col \in SeqRange(columns_to_load) |-> load_value(row_get(df, user_row, col))]

Result(success, message) == [success |-> PyBool(success), message |-> PyStr(message)]

\* the body of the try block, lines 144-165; the result dict as it stands
\* when the body ends or raises
receive_data_body(bbt_file, name) ==
    LET parsed == read_table(bbt_file)
        df == parsed.df
    IN  IF ~parsed.ok
        THEN [raised |-> TRUE, error |-> parsed.error, result |-> Result(FALSE, "")]
        ELSE IF "user_id" \notin df.columns
        THEN [raised |-> FALSE, error |-> "",
              result |-> Result(FALSE, "No 'user_id' column found in the file.")]
        ELSE LET user_rows == matching_rows(df, name)
             IN  IF user_rows = <<>>
                 THEN [raised |-> FALSE, error |-> "",
                       result |-> Result(FALSE, "No rows found for user_id '"
                                                \o py_str(name) \o "'.")]
                 ELSE LET user_row == user_rows[1]
                          loaded == load_columns(df, user_row)
                      IN  [raised |-> FALSE, error |-> "",
                           result |-> loaded @@ Result(TRUE, "Data loaded for user '"
                                                       \o py_str(name) \o "'.")]

\* variant: no except clause, the exception of the body leaves the handler
receive_data_uncaught(form, bbt_file) ==
    LET name == form.name
    IN  IF file_given(bbt_file)
        THEN LET body == receive_data_body(bbt_file, name)
             IN  IF body.raised
                 THEN InternalServerError
                 ELSE [status |-> 200, json |-> body.result]
        ELSE [status |-> 200, json |-> Result(FALSE, "No file uploaded.")]

receive_data(form, bbt_file) ==
    LET name == form.name
    IN  IF file_given(bbt_file)
        THEN LET body == receive_data_body(bbt_file, name)
             IN  IF body.raised
                 THEN [status |-> 200,
                       json |-> [body.result EXCEPT
                                   !.message = PyStr("Error reading file: " \o body.error)]]
                 ELSE [status |-> 200, json |-> body.result]
        ELSE [status |-> 200, json |-> Result(FALSE, "No file uploaded.")]

(***************************************************************************)
(* The inputs explored.                                                    *)
(***************************************************************************)
Names == {PyStr("alice"), PyStr("bob"), PyNone}

FormCycleLengths == (MaxFormCycleLength - 4)..MaxFormCycleLength

\* cycleLength1 is also one long cycle, so that histories more than
\* IrregularSpread days apart are submitted
FirstFormCycleLengths == FormCycleLengths \cup {MaxFormCycleLength + IrregularSpread + 1}

FormPeriodDurations == (MaxPeriodDuration - 1)..MaxPeriodDuration

\* lmpDate3 values: a plain month, a fertile window over 29 February, a
\* window over the turn of the year
LmpDates == {<<2024, 1, 1>>, <<2024, 1, 18>>, <<2023, 12, 1>>}

\* the lmpDate3 form fields: the first two of them
FormLmpDates == {<<2024, 1, 1>>, <<2024, 1, 18>>}

PcosValues == {"true", "false"}

PredictForms ==
    [name : Names,
     cycleLength : FirstFormCycleLengths \X FormCycleLengths \X FormCycleLengths,
     periodDuration : FormPeriodDurations \X FormPeriodDurations \X FormPeriodDurations,
     lmpDate3 : FormLmpDates,
     pcos : PcosValues]

BbtRow(user, col, value) == ("user_id" :> user) @@ (col :> value)

\* the bbtFile uploads of /predict: none, an empty file field, unparseable
\* bytes, and tables without user_id, without a temperature column, with a
\* numeric one and with one holding text
BbtUploads ==
    {NoUpload,
     Upload("", "csv", DataFrame({}, <<>>)),
     Upload("bbt.csv", "empty", DataFrame({}, <<>>)),
     Upload("bbt.xlsx", "csv", DataFrame({"bbt"}, <<("bbt" :> PyInt(36))>>)),
     Upload("bbt.csv", "csv", DataFrame({"bbt"}, <<("bbt" :> PyInt(36))>>)),
     Upload("BBT.CSV", "csv",
            DataFrame({"user_id", "note"}, <<BbtRow(PyStr("alice"), "note", PyStr("x"))>>)),
     Upload("bbt.xlsx", "xlsx",
            DataFrame({"user_id", "BBT"},
                      <<BbtRow(PyStr("alice"), "BBT", PyInt(36)),
                        BbtRow(PyStr("bob"), "BBT", PyInt(40)),
                        BbtRow(PyStr("alice"), "BBT", PyInt(37))>>)),
     Upload("bbt.csv", "csv",
            DataFrame({"user_id", "temperature"},
                      <<BbtRow(PyStr("alice"), "temperature", PyStr("warm"))>>))}

\* the tables uploaded to /receive_data: any of user_id and two of the ten
\* columns, up to MaxRows rows, cells empty or filled
DataColumns == {"user_id", "LMP_Cycle_1", "is_pcos"}

CellsOf(col) ==
    CASE col = "user_id" -> {PyStr("alice"), PyStr("bob"), PyNaN}
      [] col = "LMP_Cycle_1" -> {PyStr("2024-01-01"), PyNaN}
      [] col = "is_pcos" -> {PyInt(1), PyNaN}

RowsOf(columns) == {r \in [columns -> UNION {CellsOf(c) : c \in columns}] :
                        \A c \in columns : r[c] \in CellsOf(c)}

DataTables ==
    UNION {{DataFrame(columns, rows) :
                rows \in UNION {[1..k -> RowsOf(columns)] : k \in 0..MaxRows}} :
           columns \in SUBSET DataColumns}

DataUploads ==
    {NoUpload,
     Upload("", "csv", DataFrame({}, <<>>)),
     Upload("data.csv", "empty", DataFrame({}, <<>>)),
     Upload("data.csv", "xlsx", DataFrame({}, <<>>)),
     Upload("data.xlsx", "csv", DataFrame({}, <<>>))}
    \cup {Upload("data.csv", "csv", df) : df \in DataTables}
    \cup {Upload("DATA.CSV", "csv", df) : df \in {t \in DataTables : Len(t.rows) <= 1}}
    \cup {Upload("data.xlsx", "xlsx", df) : df \in {t \in DataTables : Len(t.rows) <= 1}}

\* dates and cycle lengths handed to the cycle-math functions directly
Dates == UNION {(strptime_Y_m_d(d) - 2 * MaxCycleLength)..(strptime_Y_m_d(d) + 2 * MaxCycleLength) :
                    d \in LmpDates}

CycleLengths == (0 - MaxCycleLength)..MaxCycleLength

CycleLengthTriples ==
    LET S == (MaxCycleLength - IrregularSpread - 3)..MaxCycleLength IN S \X S \X S

(***************************************************************************)
(* The server: idle, then one call handled to completion.                  *)
(***************************************************************************)
Init ==
    /\ pc = "idle"
    /\ request = <<>>
    /\ response = <<>>
    /\ locals = <<>>
    /\ log = <<>>

Predict ==
    /\ pc = "idle"
    /\ \E form \in PredictForms, bbt_file \in BbtUploads :
          LET r == predict(form, bbt_file)
          IN  /\ request' = [op |-> "predict", form |-> form, bbtFile |-> bbt_file]
              /\ response' = r.response
              /\ locals' = r.locals
              /\ log' = r.printed
    /\ pc' = "done"

ReceiveData ==
    /\ pc = "idle"
    /\ \E name \in Names, bbt_file \in DataUploads :
          /\ request' = [op |-> "receive_data", form |-> [name |-> name],
                         bbtFile |-> bbt_file]
          /\ response' = receive_data([name |-> name], bbt_file)
    /\ locals' = <<>>
    /\ log' = <<>>
    /\ pc' = "done"

CalculateOvulationDay ==
    /\ pc = "idle"
    /\ \E lmp_date \in {strptime_Y_m_d(d) : d \in LmpDates},
          cycle_length \in CycleLengths, has_pcos \in BOOLEAN :
          /\ request' = [op |-> "calculate_ovulation_day", lmp_date |-> lmp_date,
                         cycle_length |-> cycle_length, has_pcos |-> has_pcos]
          /\ response' = calculate_ovulation_day(lmp_date, cycle_length, has_pcos)
    /\ UNCHANGED <<locals, log>>
    /\ pc' = "done"

CalculateFertileWindow ==
    /\ pc = "idle"
    /\ \E ovulation_day \in Dates :
          /\ request' = [op |-> "calculate_fertile_window", ovulation_day |-> ovulation_day]
          /\ response' = calculate_fertile_window(ovulation_day)
    /\ UNCHANGED <<locals, log>>
    /\ pc' = "done"

AnalyzeCycleRegularity ==
    /\ pc = "idle"
    /\ \E cycle_lengths \in CycleLengthTriples, has_pcos \in BOOLEAN :
          /\ request' = [op |-> "analyze_cycle_regularity",
                         cycle_lengths |-> cycle_lengths, has_pcos |-> has_pcos]
          /\ response' = analyze_cycle_regularity(cycle_lengths, has_pcos)
    /\ UNCHANGED <<locals, log>>
    /\ pc' = "done"

CalculateConceptionProbability ==
    /\ pc = "idle"
    /\ \E ovulation_day \in Dates :
          LET fertile_window == calculate_fertile_window(ovulation_day)
          IN  /\ request' = [op |-> "calculate_conception_probability",
                             fertile_window |-> fertile_window]
              /\ response' = calculate_conception_probability(fertile_window)
    /\ UNCHANGED <<locals, log>>
    /\ pc' = "done"

\* the call has returned; the server holds nothing of it
Return ==
    /\ pc = "done"
    /\ pc' = "idle"
    /\ request' = <<>>
    /\ response' = <<>>
    /\ locals' = <<>>
    /\ log' = <<>>

Next ==
    \/ Predict
    \/ ReceiveData
    \/ CalculateOvulationDay
    \/ CalculateFertileWindow
    \/ AnalyzeCycleRegularity
    \/ CalculateConceptionProbability
    \/ Return

Spec == Init /\ [][Next]_vars

(***************************************************************************)
(* Properties.                                                             *)
(***************************************************************************)
\* the call op has been handled and its result stands in response
Called(op) == pc = "done" /\ request.op = op

\* C1: calculate_ovulation_day returns the reference date plus
\* cycle_length - 14 days without the condition flag, and plus
\* floor(cycle_length * 0.6) = floor(3 * cycle_length / 5) days with it (for
\* cycle_length >= 0); without the flag a cycle_length below 14 gives a date
\* strictly before the reference date, unclamped.
OvulationDayOffset ==
    Called("calculate_ovulation_day") =>
        LET ref == request.lmp_date
            c == request.cycle_length
        IN  /\ ~request.has_pcos => response = ref + (c - 14)
            /\ (request.has_pcos /\ c >= 0) => response = ref + ((3 * c) \div 5)
            /\ (~request.has_pcos /\ c < 14) => response < ref

\* C1 witness: a cycle of 10 days without the flag gave a day 4 days before
\* the reference date
OvulationBeforeReferenceReached ==
    /\ Called("calculate_ovulation_day")
    /\ ~request.has_pcos
    /\ request.cycle_length = 10
    /\ response = request.lmp_date - 4

RegularityStrings ==
    {"Irregular - PCOS may cause irregular cycles", "Irregular", "Regular"}

\* C2 as stated: with the condition flag the classification is the string
\* "Irregular (condition-flagged)", and cycleRegularity of every Predict
\* response is one of "Irregular (condition-flagged)", "Irregular", "Regular".
RegularityConditionFlagged ==
    /\ (Called("analyze_cycle_regularity") /\ request.has_pcos)
           => response = "Irregular (condition-flagged)"
    /\ Called("predict")
           => response.json.cycleRegularity
                  \in {"Irregular (condition-flagged)", "Irregular", "Regular"}

\* C2 amended: with the condition flag the classification is exactly the
\* string "Irregular - PCOS may cause irregular cycles" whatever the three
\* cycle lengths are, and cycleRegularity of every Predict response is one of
\* "Irregular - PCOS may cause irregular cycles", "Irregular", "Regular".
RegularityPcosString ==
    /\ (Called("analyze_cycle_regularity") /\ request.has_pcos)
           => response = "Irregular - PCOS may cause irregular cycles"
    /\ Called("predict")
           => /\ response.json.cycleRegularity \in RegularityStrings
              /\ request.form.pcos = "true"
                     => response.json.cycleRegularity
                            = "Irregular - PCOS may cause irregular cycles"

\* C2 witness: flagged lengths more than 8 days apart were classified by the flag
FlaggedWideSpreadReached ==
    /\ Called("analyze_cycle_regularity")
    /\ request.has_pcos
    /\ request.cycle_lengths[1] - request.cycle_lengths[2] > 8
    /\ response = "Irregular - PCOS may cause irregular cycles"

\* C3: the classification is "Regular" exactly when the flag is off and the
\* largest and smallest of the three lengths are at most 8 apart; a spread of
\* exactly 8 is "Regular", one of 9 is "Irregular", and the order of the
\* three lengths does not matter.
RegularIffSpreadAtMostEight ==
    Called("analyze_cycle_regularity") =>
        LET c == request.cycle_lengths
            flag == request.has_pcos
            SpreadIs(n) == /\ \E i, j \in 1..3 : c[i] - c[j] = n
                           /\ \A i, j \in 1..3 : c[i] - c[j] <= n
        IN  /\ (response = "Regular") <=> (~flag /\ \A i, j \in 1..3 : c[i] - c[j] <= 8)
            /\ (~flag /\ SpreadIs(8)) => response = "Regular"
            /\ (~flag /\ SpreadIs(9)) => response = "Irregular"
            /\ \A q \in Permutations(1..3) :
                   analyze_cycle_regularity([k \in 1..3 |-> c[q[k]]], flag) = response

\* C3 witness: unsorted lengths exactly 8 days apart were classified "Regular"
SpreadOfEightRegularReached ==
    /\ Called("analyze_cycle_regularity")
    /\ ~request.has_pcos
    /\ request.cycle_lengths[1] - request.cycle_lengths[2] = 8
    /\ request.cycle_lengths[3] > request.cycle_lengths[2]
    /\ request.cycle_lengths[3] < request.cycle_lengths[1]
    /\ response = "Regular"

\* C4: the fertile window of ovulation day d starts at d - 5 and ends at
\* d + 1, so its end is its start plus 6 days and d lies inside it; the
\* window of every Predict response is such a window around the ovulation day
\* returned with it.
FertileWindowSevenDays ==
    /\ Called("calculate_fertile_window") =>
           LET d == request.ovulation_day
           IN  /\ response.start = d - 5
               /\ response.end = d + 1
               /\ response.end = response.start + 6
               /\ response.start <= d /\ d <= response.end
    /\ Called("predict") =>
           LET w == locals.fertile_window
               j == response.json
           IN  /\ w.end = w.start + 6
               /\ w.start <= locals.ovulation_day /\ locals.ovulation_day <= w.end
               /\ j.fertileWindow.start = strftime_A_B_d_Y(w.start)
               /\ j.fertileWindow.end = strftime_A_B_d_Y(w.start + 6)
               /\ j.ovulationDay = strftime_A_B_d_Y(w.start + 5)

\* C4 witness: a Predict response whose window runs over 29 February 2024
WindowOverLeapDayReached ==
    /\ Called("predict")
    /\ response.json.fertileWindow.start = "Saturday, February 24, 2024"
    /\ response.json.ovulationDay = "Thursday, February 29, 2024"
    /\ response.json.fertileWindow.end = "Friday, March 01, 2024"

ProbabilityLabels ==
    <<"Low (~4%)", "Low (~10%)", "Medium (~15%)", "High (~27%)", "High (~30%)",
      "Peak (~33%)", "Very Low">>

\* C5: the probability list has exactly 7 entries; entry i (0..6) is dated
\* fertile_window.start + i days and labelled with the table entry of
\* ovulation offset i - 5; in a Predict response the "Peak (~33%)" entry is
\* dated on the ovulation day and the last entry on the window's end.
ConceptionProbabilityTable ==
    LET WellFormed(p, start) ==
            /\ Len(p) = 7
            /\ \A i \in 0..6 :
                   /\ p[i + 1].date = strftime_B_d(start + i)
                   /\ p[i + 1].probability = ProbabilityLabels[i + 1]
                   /\ \E k \in DOMAIN probabilities :
                          /\ probabilities[k].day_offset = i - 5
                          /\ probabilities[k].prob = p[i + 1].probability
    IN  /\ Called("calculate_conception_probability") =>
               WellFormed(response, request.fertile_window.start)
        /\ Called("predict") =>
               LET p == response.json.conceptionProbability
               IN  /\ WellFormed(p, locals.fertile_window.start)
                   /\ \A k \in DOMAIN p :
                          p[k].probability = "Peak (~33%)"
                              => p[k].date = strftime_B_d(locals.ovulation_day)
                   /\ p[Len(p)].date = strftime_B_d(locals.fertile_window.end)

\* C5 witness: the list of a window ending on 1 March 2024, peak on 29 February
ProbabilityOverLeapDayReached ==
    /\ Called("calculate_conception_probability")
    /\ response[1].date = "February 24"
    /\ response[6] = [date |-> "February 29", probability |-> "Peak (~33%)"]
    /\ response[7] = [date |-> "March 01", probability |-> "Very Low"]

\* C6: averageCycleLength and averagePeriodDuration are the means of the
\* three samples rounded to the nearest integer, and the ovulation day
\* returned is that of the cycle starting at lmpDate3 + averageCycleLength
\* days; cycles 28, 30, 26, durations 5, 6, 5, lmpDate3 2024-01-01 without
\* the flag give average 28, next LMP 2024-01-29, ovulation 2024-02-12,
\* window 2024-02-07 to 2024-02-13 and "Regular".
PredictTargetsNextCycle ==
    Called("predict") =>
        LET f == request.form
            j == response.json
            a == j.insights.averageCycleLength
            b == j.insights.averagePeriodDuration
            Nearest(x, s) == 2 * (3 * x - s) <= 3 /\ 2 * (s - 3 * x) <= 3
        IN  /\ Nearest(a, f.cycleLength[1] + f.cycleLength[2] + f.cycleLength[3])
            /\ Nearest(b, f.periodDuration[1] + f.periodDuration[2] + f.periodDuration[3])
            /\ j.ovulationDay
                   = strftime_A_B_d_Y(
                         calculate_ovulation_day(strptime_Y_m_d(f.lmpDate3) + a, a,
                                                 f.pcos = "true"))
            /\ (/\ f.cycleLength = <<28, 30, 26>>
                /\ f.periodDuration = <<5, 6, 5>>
                /\ f.lmpDate3 = <<2024, 1, 1>>
                /\ f.pcos = "false")
                   => /\ a = 28
                      /\ b = 5
                      /\ locals.next_lmp_date = _ymd2ord(2024, 1, 29)
                      /\ locals.ovulation_day = _ymd2ord(2024, 2, 12)
                      /\ j.ovulationDay = "Monday, February 12, 2024"
                      /\ j.fertileWindow.start = "Wednesday, February 07, 2024"
                      /\ j.fertileWindow.end = "Tuesday, February 13, 2024"
                      /\ j.cycleRegularity = "Regular"

\* C6 witness: the scenario of the claim was submitted and answered
RoundTripScenarioReached ==
    /\ Called("predict")
    /\ request.form.cycleLength = <<28, 30, 26>>
    /\ request.form.periodDuration = <<5, 6, 5>>
    /\ request.form.lmpDate3 = <<2024, 1, 1>>
    /\ request.form.pcos = "false"
    /\ response.json.insights.averageCycleLength = 28
    /\ response.json.ovulationDay = "Monday, February 12, 2024"

\* the bytes of upload f are in the format its filename announces
FileReadable(f) ==
    \/ f.filename \in {"bbt.csv", "BBT.CSV", "data.csv", "DATA.CSV"} /\ f.format = "csv"
    \/ f.filename \in {"bbt.xlsx", "data.xlsx"} /\ f.format = "xlsx"

\* the rows of table df whose user_id is the text name
RowsOfUser(df, name) ==
    {i \in DOMAIN df.rows : name.t = "str" /\ df.rows[i]["user_id"] = name}

\* which of the four error conditions of a lookup of name in upload f holds,
\* or "found"
ErrorCondition(name, f) ==
    IF ~f.present \/ f.filename = "" THEN "no file"
    ELSE IF ~FileReadable(f) THEN "unreadable"
    ELSE IF "user_id" \notin f.df.columns THEN "no user_id column"
    ELSE IF RowsOfUser(f.df, name) = {} THEN "no matching row"
    ELSE "found"

TenColumns ==
    {"LMP_Cycle_1", "LMP_Cycle_2", "LMP_Cycle_3",
     "Cycle_Length_1", "Cycle_Length_2", "Cycle_Length_3",
     "Period_Duration_1", "Period_Duration_2", "Period_Duration_3", "is_pcos"}

\* uploads whose answers the messages are compared with
ProbeUploads == {f \in DataUploads : Len(f.df.rows) <= 1}

\* C7: no file (or an empty filename), an unreadable file, a table without
\* user_id and a table without a row of the user each end in a returned
\* response with success false and a non-empty message; messages of
\* different conditions differ; every response holds success and message and
\* none is an error raised to the caller.
RetrievalErrorsReported ==
    Called("receive_data") =>
        LET j == response.json
            cond == ErrorCondition(request.form.name, request.bbtFile)
        IN  /\ response.status = 200
            /\ {"success", "message"} \subseteq DOMAIN j
            /\ cond # "found" =>
                   /\ j.success = PyBool(FALSE)
                   /\ j.message.t = "str" /\ j.message.s # ""
                   /\ \A name \in Names, f \in ProbeUploads :
                          ErrorCondition(name, f) \notin {"found", cond}
                              => LET other == receive_data([name |-> name], f)
                                 IN  /\ other.status = 200
                                     /\ other.json.message # j.message

\* C7 witness: an unreadable file was answered with the parser's error
UnreadableFileReportedReached ==
    /\ Called("receive_data")
    /\ request.bbtFile.format = "empty"
    /\ response.json.success = PyBool(FALSE)
    /\ response.json.message = PyStr("Error reading file: No columns to parse from file")

\* C8 as stated: when a row matches, success is true and each of the ten
\* columns is read from the first matching row: the text of the cell when the
\* table has the column and the cell is not empty, the absent marker
\* otherwise, never a text for an empty cell.
RetrievedFieldsTextOrAbsent ==
    (Called("receive_data")
        /\ ErrorCondition(request.form.name, request.bbtFile) = "found") =>
        LET j == response.json
            df == request.bbtFile.df
            first == df.rows[Min(RowsOfUser(df, request.form.name))]
        IN  /\ j.success = PyBool(TRUE)
            /\ \A col \in TenColumns :
                   /\ col \in DOMAIN j
                   /\ IF col \in df.columns /\ first[col] # PyNaN
                      THEN j[col] = PyStr(py_str(first[col]))
                      ELSE j[col] = PyNone

\* C9: the response of Predict is the one the same cycle, period, date and
\* pcos fields get without a name and without a file, whatever name and
\* bbtFile came with them (so any two requests agreeing on those fields get
\* identical responses), and the prediction is always returned.
BbtFileNonInterference ==
    Called("predict") =>
        /\ response.status = 200
        /\ response = predict([request.form EXCEPT !.name = PyNone], NoUpload).response

\* C9 witness: the flag was set, the file could not be parsed, the failure
\* was printed and the prediction returned
UnparseableBbtFileReached ==
    /\ Called("predict")
    /\ request.form.pcos = "true"
    /\ request.bbtFile.format = "empty"
    /\ \E k \in DOMAIN log :
           log[k].line = "Error reading file: No columns to parse from file"
    /\ response.status = 200
    /\ response.json.cycleRegularity = "Irregular - PCOS may cause irregular cycles"

\* C10: success is true exactly when a file was given, it was parsed, it
\* has a user_id column and a row matches the name; a successful response
\* holds all ten field keys, an unsuccessful one only success and message.
RetrievalResponseShape ==
    Called("receive_data") =>
        LET j == response.json
            cond == ErrorCondition(request.form.name, request.bbtFile)
        IN  /\ j.success \in {PyBool(TRUE), PyBool(FALSE)}
            /\ (j.success = PyBool(TRUE)) <=> (cond = "found")
            /\ j.success = PyBool(TRUE) => DOMAIN j = {"success", "message"} \cup TenColumns
            /\ j.success = PyBool(FALSE) => DOMAIN j = {"success", "message"}

\* C10 witness: a row matched in a table that lacks is_pcos, and the
\* response still holds that key
MatchWithMissingColumnReached ==
    /\ Called("receive_data")
    /\ request.bbtFile.df.columns = {"user_id", "LMP_Cycle_1"}
    /\ response.json.success = PyBool(TRUE)
    /\ response.json["LMP_Cycle_1"] = PyStr("2024-01-01")
    /\ response.json["is_pcos"] = PyNone
====
